---------------------------- MODULE Spec2Model ----------------------------
(***************************************************************************)
(* Model of the matching and recommendation agent of Real-Estate-Agent     *)
(* (src/src/real_estate_agents/matching_agent/agent.py).                   *)
(*                                                                         *)
(* Numbers.  The Python code computes with int and float.  The model       *)
(* computes with exact rationals [n, d] in lowest terms (d > 0); IEEE      *)
(* rounding of the binary floats is not represented.                       *)
(*                                                                         *)
(* Text.  A Python str is a sequence of characters.  The characters of     *)
(* the model are TLA+ strings: the ASCII ones stand for themselves         *)
(* ("3", "-", " ", "x"), and "wan", "yi", "nei", "fen", "zhong" stand for  *)
(* the CJK characters of the unit markers (wan = ten thousand, yi nei =    *)
(* "or less", fen zhong = minutes).  Area and school names are sequences   *)
(* of the syllables of their names.                                        *)
(*                                                                         *)
(* Exceptions.  A Python call either returns a value or raises.  An        *)
(* outcome is a record [exc, val]: exc = "None" and val the value          *)
(* returned, or exc the name of the exception raised.                      *)
(***************************************************************************)
EXTENDS Integers, Sequences, FiniteSets, TLC

VARIABLES agent, call

vars == <<agent, call>>

-----------------------------------------------------------------------------
(* Exact rational arithmetic standing for Python's float arithmetic.       *)

Abs(x) == IF x < 0 THEN -x ELSE x

RECURSIVE GCD(_, _)
GCD(a, b) == IF b = 0 THEN a ELSE GCD(b, a % b)

\* The rational n/d (d # 0) in lowest terms with a positive denominator.
Rat(n, d) ==
    LET g == GCD(Abs(n), Abs(d))
        s == IF d < 0 THEN -1 ELSE 1
    IN  [n |-> (s * n) \div g, d |-> (s * d) \div g]

RInt(i) == [n |-> i, d |-> 1]

RZero == RInt(0)

ROne == RInt(1)

\* Sums and comparisons go through the least common denominator, which
\* keeps the intermediate integers small.
RAdd(a, b) ==
    LET g == GCD(a.d, b.d)
    IN  Rat(a.n * (b.d \div g) + b.n * (a.d \div g), (a.d \div g) * b.d)

RNeg(a) == [n |-> 0 - a.n, d |-> a.d]

RSub(a, b) == RAdd(a, RNeg(b))

RMul(a, b) == Rat(a.n * b.n, a.d * b.d)

RLe(a, b) == RSub(a, b).n <= 0

RLt(a, b) == RSub(a, b).n < 0

\* Python's max(a, b) on two floats: b when b > a, else a.
RMax(a, b) == IF RLt(a, b) THEN b ELSE a

\* Python's abs on a float.
RAbs(a) == [n |-> Abs(a.n), d |-> a.d]

-----------------------------------------------------------------------------
(* Outcomes of a call, and Optional values.                                *)

NoValue == [n |-> 0, d |-> 1]

Return(v) == [exc |-> "None", val |-> v]

Raise(e) == [exc |-> e, val |-> NoValue]

Returned(o) == o.exc = "None"

\* Python's a / b on numbers: ZeroDivisionError when b is zero.
TrueDiv(a, b) ==
    IF b.n = 0 THEN Raise("ZeroDivisionError")
    ELSE Return(Rat(a.n * b.d, a.d * b.n))

\* Optional[number]: None, or a number.
None == [some |-> FALSE, v |-> RZero]

Some(x) == [some |-> TRUE, v |-> x]

-----------------------------------------------------------------------------
(* Python str operations, on sequences of characters.                      *)

\* sub in s
Contains(s, sub) ==
    \E i \in 0..(Len(s) - Len(sub)) : SubSeq(s, i + 1, i + Len(sub)) = sub

\* s.replace(sub, ""): every non-overlapping occurrence of the non-empty
\* sub, found from the left, is removed.
RECURSIVE Remove(_, _)
Remove(s, sub) ==
    IF Len(s) < Len(sub) THEN s
    ELSE IF SubSeq(s, 1, Len(sub)) = sub
         THEN Remove(SubSeq(s, Len(sub) + 1, Len(s)), sub)
         ELSE <<Head(s)>> \o Remove(Tail(s), sub)

\* s.split(c) for a one-character separator c.
RECURSIVE Split(_, _)
Split(s, c) ==
    IF \A i \in 1..Len(s) : s[i] # c THEN <<s>>
    ELSE LET i == CHOOSE k \in 1..Len(s) :
                      s[k] = c /\ \A j \in 1..(k - 1) : s[j] # c
         IN  <<SubSeq(s, 1, i - 1)>> \o Split(SubSeq(s, i + 1, Len(s)), c)

\* s.strip(): leading and trailing whitespace removed.
RECURSIVE LStrip(_)
LStrip(s) == IF s # <<>> /\ Head(s) = " " THEN LStrip(Tail(s)) ELSE s

RECURSIVE RStrip(_)
RStrip(s) ==
    IF s # <<>> /\ s[Len(s)] = " " THEN RStrip(SubSeq(s, 1, Len(s) - 1)) ELSE s

Strip(s) == RStrip(LStrip(s))

Digits == {"0", "1", "2", "3", "4", "5", "6", "7", "8", "9"}

DigitVal(c) ==
    CASE c = "0" -> 0 [] c = "1" -> 1 [] c = "2" -> 2 [] c = "3" -> 3
      [] c = "4" -> 4 [] c = "5" -> 5 [] c = "6" -> 6 [] c = "7" -> 7
      [] c = "8" -> 8 [] c = "9" -> 9

\* The number a non-empty run of decimal digits denotes.
RECURSIVE Decimal(_)
Decimal(s) ==
    IF s = <<>> THEN 0
    ELSE 10 * Decimal(SubSeq(s, 1, Len(s) - 1)) + DigitVal(s[Len(s)])

\* float(s) on the characters of the model: surrounding whitespace is
\* ignored, a non-empty run of digits is its value, and any other text
\* (empty, a letter, a CJK character, an inner blank) is a ValueError.
ParseFloat(s) ==
    LET t == Strip(s)
    IN  IF t # <<>> /\ \A i \in 1..Len(t) : t[i] \in Digits
        THEN Return(RInt(Decimal(t)))
        ELSE Raise("ValueError")

\* re.findall(r'\d+', s): the maximal runs of digits of s, left to right.
RECURSIVE DigitPrefix(_)
DigitPrefix(s) ==
    IF s # <<>> /\ Head(s) \in Digits
    THEN <<Head(s)>> \o DigitPrefix(Tail(s))
    ELSE <<>>

RECURSIVE FindAllDigits(_)
FindAllDigits(s) ==
    IF s = <<>> THEN <<>>
    ELSE IF Head(s) \in Digits
         THEN LET run == DigitPrefix(s)
              IN  <<run>> \o FindAllDigits(SubSeq(s, Len(run) + 1, Len(s)))
         ELSE FindAllDigits(Tail(s))

-----------------------------------------------------------------------------
(* MatchingAgent: the four criterion scorers.                              *)

\* The money unit of the budget text: one wan is 10000 yuan.
WanUnit == 10000

\* The commute, in minutes, at which the score without a cap reaches zero.
FullDecayMinutes == 60

\* 1.0 - q for an outcome q of a division, floored at 0.0; the division's
\* exception propagates.
OneMinusFloored(q) ==
    IF Returned(q) THEN Return(RMax(RZero, RSub(ROne, q.val))) ELSE q

\* max(0.0, q) for an outcome q of a division.
Floored(q) == IF Returned(q) THEN Return(RMax(RZero, q.val)) ELSE q

Half == Rat(1, 2)

\* calculate_budget_score with the decay above the range taken relative to
\* the lower bound.
BudgetScoreDecayByMin(property_price, budget_min, budget_max) ==
    IF ~budget_min.some /\ ~budget_max.some THEN Return(Half)
    ELSE IF ~budget_max.some
    THEN IF RLe(budget_min.v, property_price) THEN Return(ROne)
         ELSE Floored(TrueDiv(property_price, budget_min.v))
    ELSE IF ~budget_min.some
    THEN IF RLe(property_price, budget_max.v) THEN Return(ROne)
         ELSE OneMinusFloored(
                  TrueDiv(RSub(property_price, budget_max.v), budget_max.v))
    ELSE IF RLe(budget_min.v, property_price)
            /\ RLe(property_price, budget_max.v)
    THEN Return(ROne)
    ELSE IF RLt(property_price, budget_min.v)
    THEN Floored(TrueDiv(property_price, budget_min.v))
    ELSE OneMinusFloored(
             TrueDiv(RSub(property_price, budget_max.v), budget_min.v))

calculate_budget_score(property_price, budget_min, budget_max) ==
    IF ~budget_min.some /\ ~budget_max.some THEN Return(Half)
    ELSE IF ~budget_max.some
    THEN IF RLe(budget_min.v, property_price) THEN Return(ROne)
         ELSE Floored(TrueDiv(property_price, budget_min.v))
    ELSE IF ~budget_min.some
    THEN IF RLe(property_price, budget_max.v) THEN Return(ROne)
         ELSE OneMinusFloored(
                  TrueDiv(RSub(property_price, budget_max.v), budget_max.v))
    ELSE IF RLe(budget_min.v, property_price)
            /\ RLe(property_price, budget_max.v)
    THEN Return(ROne)
    ELSE IF RLt(property_price, budget_min.v)
    THEN Floored(TrueDiv(property_price, budget_min.v))
    ELSE OneMinusFloored(
             TrueDiv(RSub(property_price, budget_max.v), budget_max.v))

\* calculate_commute_score with the excess over the cap taken relative to
\* the hour.
CommuteScoreExcessOverHour(property_commute, required_commute) ==
    IF ~required_commute.some
    THEN OneMinusFloored(TrueDiv(property_commute, RInt(FullDecayMinutes)))
    ELSE IF RLe(property_commute, required_commute.v) THEN Return(ROne)
    ELSE OneMinusFloored(
             TrueDiv(RSub(property_commute, required_commute.v),
                     RInt(FullDecayMinutes)))

calculate_commute_score(property_commute, required_commute) ==
    IF ~required_commute.some
    THEN OneMinusFloored(TrueDiv(property_commute, RInt(FullDecayMinutes)))
    ELSE IF RLe(property_commute, required_commute.v) THEN Return(ROne)
    ELSE OneMinusFloored(
             TrueDiv(RSub(property_commute, required_commute.v),
                     required_commute.v))

\* dict.get(key, default)
DictGet(d, key, default) == IF key \in DOMAIN d THEN d[key] ELSE default

\* The five districts of the adjacency table.
ChaoYangQu == <<"Chao", "Yang", "Qu">>

HaiDianQu == <<"Hai", "Dian", "Qu">>

XiChengQu == <<"Xi", "Cheng", "Qu">>

DongChengQu == <<"Dong", "Cheng", "Qu">>

FengTaiQu == <<"Feng", "Tai", "Qu">>

area_similarity_map ==
    (ChaoYangQu :> <<HaiDianQu, DongChengQu>>)
    @@ (HaiDianQu :> <<ChaoYangQu, XiChengQu>>)
    @@ (XiChengQu :> <<HaiDianQu, DongChengQu>>)
    @@ (DongChengQu :> <<XiChengQu, ChaoYangQu>>)
    @@ (FengTaiQu :> <<ChaoYangQu, XiChengQu>>)

\* x in lst, for a Python list lst
InList(x, lst) == \E i \in 1..Len(lst) : lst[i] = x

\* calculate_area_score with the table consulted under the listing's area.
AreaScoreNeighboursOfListing(property_area, required_area) ==
    IF required_area = <<>> THEN Return(Half)
    ELSE IF Contains(property_area, required_area)
            \/ Contains(required_area, property_area)
    THEN Return(ROne)
    ELSE IF InList(required_area,
                   DictGet(area_similarity_map, property_area, <<>>))
    THEN Return(Rat(7, 10))
    ELSE Return(Rat(2, 10))

calculate_area_score(property_area, required_area) ==
    IF required_area = <<>> THEN Return(Half)
    ELSE IF Contains(property_area, required_area)
            \/ Contains(required_area, property_area)
    THEN Return(ROne)
    ELSE IF InList(property_area,
                   DictGet(area_similarity_map, required_area, <<>>))
    THEN Return(Rat(7, 10))
    ELSE Return(Rat(2, 10))

\* The six schools of the quality table ("Xiao" is the character of
\* "primary", "Xiao4" the one of "school").
BeiJingDiErShiYanXiaoXue ==
    <<"Bei", "Jing", "Di", "Er", "Shi", "Yan", "Xiao", "Xue">>

ZhongGuanCunDiYiXiaoXue ==
    <<"Zhong", "Guan", "Cun", "Di", "Yi", "Xiao", "Xue">>

ChaoYangShiYanXiaoXue == <<"Chao", "Yang", "Shi", "Yan", "Xiao", "Xue">>

ChaoYangWaiGuoYuXueXiao ==
    <<"Chao", "Yang", "Wai", "Guo", "Yu", "Xue", "Xiao4">>

FengTaiDiWuXiaoXue == <<"Feng", "Tai", "Di", "Wu", "Xiao", "Xue">>

FengTaiShiYanXiaoXue == <<"Feng", "Tai", "Shi", "Yan", "Xiao", "Xue">>

school_quality_map ==
    (BeiJingDiErShiYanXiaoXue :> Rat(95, 100))
    @@ (ZhongGuanCunDiYiXiaoXue :> Rat(90, 100))
    @@ (ChaoYangShiYanXiaoXue :> Rat(85, 100))
    @@ (ChaoYangWaiGuoYuXueXiao :> Rat(88, 100))
    @@ (FengTaiDiWuXiaoXue :> Rat(75, 100))
    @@ (FengTaiShiYanXiaoXue :> Rat(78, 100))

\* calculate_school_score with a school outside the table rated 0.
SchoolScoreUnknownAsZero(property_school, required_school) ==
    IF required_school = <<>> THEN Return(Half)
    ELSE IF Contains(property_school, required_school)
            \/ Contains(required_school, property_school)
    THEN Return(ROne)
    ELSE LET property_quality ==
                 DictGet(school_quality_map, property_school, RZero)
             required_quality ==
                 DictGet(school_quality_map, required_school, RZero)
             quality_diff == RAbs(RSub(property_quality, required_quality))
         IN  Return(RMax(RZero, RSub(ROne, RMul(quality_diff, RInt(2)))))

calculate_school_score(property_school, required_school) ==
    IF required_school = <<>> THEN Return(Half)
    ELSE IF Contains(property_school, required_school)
            \/ Contains(required_school, property_school)
    THEN Return(ROne)
    ELSE LET property_quality ==
                 DictGet(school_quality_map, property_school, Rat(6, 10))
             required_quality ==
                 DictGet(school_quality_map, required_school, Rat(6, 10))
             quality_diff == RAbs(RSub(property_quality, required_quality))
         IN  Return(RMax(RZero, RSub(ROne, RMul(quality_diff, RInt(2)))))

-----------------------------------------------------------------------------
(* MatchingAgent.__init__: the weights, each divided by their sum.         *)

\* __init__ storing the weights as given, without dividing by their sum.
NewAgentUnnormalized(budget_weight, area_weight, school_weight, commute_weight) ==
    Return([budget_weight |-> budget_weight, area_weight |-> area_weight,
            school_weight |-> school_weight,
            commute_weight |-> commute_weight])

\* __init__ dividing by 1 when the weights sum to zero.
NewAgentZeroSumGuarded(budget_weight, area_weight, school_weight, commute_weight) ==
    LET sum == RAdd(RAdd(budget_weight, area_weight),
                    RAdd(school_weight, commute_weight))
        total_weight == IF sum.n = 0 THEN ROne ELSE sum
    IN  Return([budget_weight |-> TrueDiv(budget_weight, total_weight).val,
                area_weight |-> TrueDiv(area_weight, total_weight).val,
                school_weight |-> TrueDiv(school_weight, total_weight).val,
                commute_weight |->
                    TrueDiv(commute_weight, total_weight).val])

NewMatchingAgent(budget_weight, area_weight, school_weight, commute_weight) ==
    LET total_weight ==
            RAdd(RAdd(budget_weight, area_weight),
                 RAdd(school_weight, commute_weight))
        b == TrueDiv(budget_weight, total_weight)
        a == TrueDiv(area_weight, total_weight)
        s == TrueDiv(school_weight, total_weight)
        c == TrueDiv(commute_weight, total_weight)
    IN  IF ~Returned(b) THEN b
        ELSE Return([budget_weight |-> b.val, area_weight |-> a.val,
                     school_weight |-> s.val, commute_weight |-> c.val])

-----------------------------------------------------------------------------
(* calculate_matching_score: the preference text is parsed, the four       *)
(* scorers are applied, the total is weighted and the reason is built.     *)

wan == <<"wan">>

yinei == <<"yi", "nei">>

fenzhong == <<"fen", "zhong">>

\* float(text.strip()) * 10000
WanAmount(text) ==
    LET f == ParseFloat(Strip(text))
    IN  IF Returned(f) THEN Return(RMul(f.val, RInt(WanUnit))) ELSE f

\* The budget parse with the "or less" text setting the lower bound.
ParseBudgetUpToSetsMin(budget_text) ==
    IF budget_text # <<>> /\ Contains(budget_text, wan)
    THEN LET budget_str == Remove(budget_text, wan)
         IN  IF Contains(budget_str, <<"-">>)
             THEN LET parts == Split(budget_str, "-")
                  IN  IF Len(parts) = 2
                      THEN LET lo == WanAmount(parts[1])
                               hi == WanAmount(parts[2])
                           IN  IF ~Returned(lo) THEN lo
                               ELSE IF ~Returned(hi) THEN hi
                               ELSE Return([min |-> Some(lo.val),
                                            max |-> Some(hi.val)])
                      ELSE Return([min |-> None, max |-> None])
             ELSE IF Contains(budget_str, yinei)
             THEN LET hi == WanAmount(Remove(budget_str, yinei))
                  IN  IF ~Returned(hi) THEN hi
                      ELSE Return([min |-> Some(hi.val), max |-> None])
             ELSE Return([min |-> None, max |-> None])
    ELSE Return([min |-> None, max |-> None])

\* The budget bounds read from requirements["budget"].
ParseBudget(budget_text) ==
    IF budget_text # <<>> /\ Contains(budget_text, wan)
    THEN LET budget_str == Remove(budget_text, wan)
         IN  IF Contains(budget_str, <<"-">>)
             THEN LET parts == Split(budget_str, "-")
                  IN  IF Len(parts) = 2
                      THEN LET lo == WanAmount(parts[1])
                               hi == WanAmount(parts[2])
                           IN  IF ~Returned(lo) THEN lo
                               ELSE IF ~Returned(hi) THEN hi
                               ELSE Return([min |-> Some(lo.val),
                                            max |-> Some(hi.val)])
                      ELSE Return([min |-> None, max |-> None])
             ELSE IF Contains(budget_str, yinei)
             THEN LET hi == WanAmount(Remove(budget_str, yinei))
                  IN  IF ~Returned(hi) THEN hi
                      ELSE Return([min |-> None, max |-> Some(hi.val)])
             ELSE Return([min |-> None, max |-> None])
    ELSE Return([min |-> None, max |-> None])

\* The commute cap read from requirements["commute"].
ParseCommute(commute_str) ==
    IF commute_str # <<>> /\ Contains(commute_str, fenzhong)
    THEN LET numbers == FindAllDigits(commute_str)
         IN  IF numbers # <<>> THEN Some(RInt(Decimal(numbers[1])))
             ELSE None
    ELSE None

\* The phrase a criterion contributes to the reason.
ReasonPart(score, strong, moderate) ==
    IF RLe(Rat(8, 10), score) THEN <<strong>>
    ELSE IF RLe(Rat(6, 10), score) THEN <<moderate>>
    ELSE <<>>

\* The reason with the school phrase put in front of the area phrase.
BuildReasonSchoolBeforeArea(budget_score, area_score, school_score, commute_score) ==
    LET reason_parts ==
            ReasonPart(budget_score, "price fits budget",
                       "price roughly fits budget")
            \o ReasonPart(school_score, "excellent school district",
                          "good school district")
            \o ReasonPart(area_score, "excellent location", "good location")
            \o ReasonPart(commute_score, "convenient commute",
                          "fairly convenient commute")
    IN  IF reason_parts = <<>> THEN <<"average overall">> ELSE reason_parts

\* The reason: the phrases joined in criterion order (the joined string is
\* kept as the sequence of its phrases).
BuildReason(budget_score, area_score, school_score, commute_score) ==
    LET reason_parts ==
            ReasonPart(budget_score, "price fits budget",
                       "price roughly fits budget")
            \o ReasonPart(area_score, "excellent location", "good location")
            \o ReasonPart(school_score, "excellent school district",
                          "good school district")
            \o ReasonPart(commute_score, "convenient commute",
                          "fairly convenient commute")
    IN  IF reason_parts = <<>> THEN <<"average overall">> ELSE reason_parts

WeightedTotal(self, budget_score, area_score, school_score, commute_score) ==
    RAdd(RAdd(RAdd(RMul(budget_score, self.budget_weight),
                   RMul(area_score, self.area_weight)),
              RMul(school_score, self.school_weight)),
         RMul(commute_score, self.commute_weight))

\* Lines 211-271 of calculate_matching_score: the scores, the total and the
\* reason, from the parsed budget (or the exception its parsing raised)
\* and the parsed commute cap.
ScoreParsed(self, property_info, requirements, budget, max_commute_time) ==
        IF ~Returned(budget) THEN Raise(budget.exc)
        ELSE IF "price" \notin DOMAIN property_info THEN Raise("KeyError")
        ELSE LET budget_score ==
                     calculate_budget_score(RInt(property_info["price"]),
                                            budget.val.min, budget.val.max)
        IN  IF ~Returned(budget_score) THEN Raise(budget_score.exc)
        ELSE IF "area" \notin DOMAIN property_info THEN Raise("KeyError")
        ELSE LET area_score ==
                     calculate_area_score(property_info["area"],
                                          DictGet(requirements, "area", <<>>))
        IN  IF "school_district" \notin DOMAIN property_info
            THEN Raise("KeyError")
        ELSE LET school_score ==
                     calculate_school_score(
                         property_info["school_district"],
                         DictGet(requirements, "school_district", <<>>))
        IN  IF "commute_time" \notin DOMAIN property_info
            THEN Raise("KeyError")
        ELSE LET commute_score ==
                     calculate_commute_score(
                         RInt(property_info["commute_time"]),
                         max_commute_time)
        IN  IF ~Returned(commute_score) THEN Raise(commute_score.exc)
        ELSE IF "property_id" \notin DOMAIN property_info
            THEN Raise("KeyError")
        ELSE Return([property_id |-> property_info["property_id"],
                     total_score |->
                         WeightedTotal(self, budget_score.val, area_score.val,
                                       school_score.val, commute_score.val),
                     budget_score |-> budget_score.val,
                     area_score |-> area_score.val,
                     school_score |-> school_score.val,
                     commute_score |-> commute_score.val,
                     recommendation_reason |->
                         BuildReason(budget_score.val, area_score.val,
                                     school_score.val, commute_score.val)])

calculate_matching_score(self, property_info, requirements) ==
    ScoreParsed(self, property_info, requirements,
                ParseBudget(DictGet(requirements, "budget", <<>>)),
                ParseCommute(DictGet(requirements, "commute", <<>>)))

-----------------------------------------------------------------------------
(* recommend_properties: every candidate is scored, the scored candidates  *)
(* are sorted by total score, the first top_k are ranked from 1.  Any      *)
(* exception raised on the way is caught and the result is the empty list. *)

\* The scored pairs (prop, matching_score) of the candidates, in input
\* order, or the first exception a candidate raises.
RECURSIVE ScoreAll(_, _, _)
ScoreAll(self, properties, requirements) ==
    IF properties = <<>> THEN Return(<<>>)
    ELSE LET matching_score ==
                 calculate_matching_score(self, Head(properties), requirements)
         IN  IF ~Returned(matching_score) THEN Raise(matching_score.exc)
             ELSE LET rest == ScoreAll(self, Tail(properties), requirements)
                  IN  IF ~Returned(rest) THEN rest
                      ELSE Return(<<[prop |-> Head(properties),
                                     score |-> matching_score.val]>>
                                  \o rest.val)

\* An insertion that places x in front of the elements of equal total.
RECURSIVE InsertBeforeEquals(_, _)
InsertBeforeEquals(sorted, x) ==
    IF sorted = <<>> THEN <<x>>
    ELSE IF RLt(x.score.total_score, Head(sorted).score.total_score)
         THEN <<Head(sorted)>> \o InsertBeforeEquals(Tail(sorted), x)
         ELSE <<x>> \o sorted

\* x placed into the list sorted by descending total score, behind every
\* element whose total is at least its own.
RECURSIVE InsertDescending(_, _)
InsertDescending(sorted, x) ==
    IF sorted = <<>> THEN <<x>>
    ELSE IF RLe(x.score.total_score, Head(sorted).score.total_score)
         THEN <<Head(sorted)>> \o InsertDescending(Tail(sorted), x)
         ELSE <<x>> \o sorted

\* list.sort(key=total_score, reverse=True): descending, and stable (equal
\* keys keep their order, also under reverse=True).
RECURSIVE SortByTotalDescending(_)
SortByTotalDescending(scored) ==
    IF scored = <<>> THEN <<>>
    ELSE InsertDescending(
             SortByTotalDescending(SubSeq(scored, 1, Len(scored) - 1)),
             scored[Len(scored)])

\* lst[:k]: the first k elements, or for a negative k all but the last -k.
SliceTo(lst, k) ==
    LET stop == IF k < 0 THEN (IF Len(lst) + k < 0 THEN 0 ELSE Len(lst) + k)
                ELSE (IF k > Len(lst) THEN Len(lst) ELSE k)
    IN  SubSeq(lst, 1, stop)

\* An enumeration that counts from 0.
RankFromZero(lst) ==
    [i \in 1..Len(lst) |->
        [property_info |-> lst[i].prop, matching_score |-> lst[i].score,
         rank |-> i - 1]]

\* enumerate(lst, 1) made into PropertyRecommendation objects.
RankFromOne(lst) ==
    [i \in 1..Len(lst) |->
        [property_info |-> lst[i].prop, matching_score |-> lst[i].score,
         rank |-> i]]

recommend_properties(self, properties, requirements, top_k) ==
    LET scored_properties == ScoreAll(self, properties, requirements)
    IN  IF ~Returned(scored_properties) THEN Return(<<>>)
        ELSE Return(RankFromOne(
                 SliceTo(SortByTotalDescending(scored_properties.val), top_k)))

-----------------------------------------------------------------------------
(* generate_recommendation_summary.                                        *)

\* round(x, 2) for x >= 0, in hundredths.  The float is rounded to the
\* nearest hundredth; when the exact value lies midway between two
\* hundredths the float's binary digits decide, so the result is either
\* of the two: lo..hi holds the hundredths the call can return.
Round2(x) ==
    LET q == (100 * x.n) \div x.d
        twice_rem == 2 * ((100 * x.n) % x.d)
    IN  [lo |-> IF twice_rem > x.d THEN q + 1 ELSE q,
         hi |-> IF twice_rem >= x.d THEN q + 1 ELSE q]

RECURSIVE SumTotals(_)
SumTotals(recommendations) ==
    IF recommendations = <<>> THEN RZero
    ELSE RAdd(Head(recommendations).matching_score.total_score,
              SumTotals(Tail(recommendations)))

\* The prices taken from the first recommendation alone.
PricesOfTop(recommendations) == {recommendations[1].property_info["price"]}

Prices(recommendations) ==
    {recommendations[i].property_info["price"] :
        i \in 1..Len(recommendations)}

MinOf(S) == CHOOSE x \in S : \A y \in S : x <= y

MaxOf(S) == CHOOSE x \in S : \A y \in S : y <= x

SummaryEntry(rec) ==
    [rank |-> rec.rank,
     property_id |-> rec.property_info["property_id"],
     address |-> rec.property_info["address"],
     price |-> rec.property_info["price"],
     area |-> rec.property_info["area"],
     school_district |-> rec.property_info["school_district"],
     commute_time |-> rec.property_info["commute_time"],
     matching_score |-> Round2(rec.matching_score.total_score),
     score_breakdown |->
         [budget |-> Round2(rec.matching_score.budget_score),
          area |-> Round2(rec.matching_score.area_score),
          school |-> Round2(rec.matching_score.school_score),
          commute |-> Round2(rec.matching_score.commute_score)],
     reason |-> rec.matching_score.recommendation_reason]

\* The summary that reports statistics of zero for an empty list.
SummaryWithZeroStatistics(recommendations) ==
    IF recommendations = <<>>
    THEN Return([message |-> "no suitable recommendation found",
                 total_recommendations |-> 0,
                 average_matching_score |-> Round2(RZero)])
    ELSE IF \E i \in 1..Len(recommendations) :
                "address" \notin DOMAIN recommendations[i].property_info
    THEN Raise("KeyError")
    ELSE LET total_count == Len(recommendations)
             avg_score ==
                 TrueDiv(SumTotals(recommendations), RInt(total_count)).val
             top == recommendations[1]
         IN  Return(
                 [total_recommendations |-> total_count,
                  average_matching_score |-> Round2(avg_score),
                  price_range |-> [min |-> MinOf(Prices(recommendations)),
                                   max |-> MaxOf(Prices(recommendations))],
                  top_recommendation |->
                      [property_id |-> top.property_info["property_id"],
                       address |-> top.property_info["address"],
                       price |-> top.property_info["price"],
                       matching_score |->
                           Round2(top.matching_score.total_score),
                       reason |-> top.matching_score.recommendation_reason],
                  recommendations |->
                      [i \in 1..total_count |->
                          SummaryEntry(recommendations[i])]])

generate_recommendation_summary(recommendations) ==
    IF recommendations = <<>>
    THEN Return([message |-> "no suitable recommendation found"])
    ELSE IF \E i \in 1..Len(recommendations) :
                "address" \notin DOMAIN recommendations[i].property_info
    THEN Raise("KeyError")
    ELSE LET total_count == Len(recommendations)
             avg_score ==
                 TrueDiv(SumTotals(recommendations), RInt(total_count)).val
             top == recommendations[1]
         IN  Return(
                 [total_recommendations |-> total_count,
                  average_matching_score |-> Round2(avg_score),
                  price_range |-> [min |-> MinOf(Prices(recommendations)),
                                   max |-> MaxOf(Prices(recommendations))],
                  top_recommendation |->
                      [property_id |-> top.property_info["property_id"],
                       address |-> top.property_info["address"],
                       price |-> top.property_info["price"],
                       matching_score |->
                           Round2(top.matching_score.total_score),
                       reason |-> top.matching_score.recommendation_reason],
                  recommendations |->
                      [i \in 1..total_count |->
                          SummaryEntry(recommendations[i])]])

-----------------------------------------------------------------------------
(* The inputs the calls are made with.                                     *)

\* Constructor weights are the integers 0..MaxWeight.
MaxWeight == 1

\* Prices and budget bounds of the scorer calls are 0..MaxWan wan.
MaxWan == 4

\* Commute times of the scorer calls are 0..MaxCommuteSteps quarter hours.
MaxCommuteSteps == 5

QuarterHour == 15

\* Candidate lists hold at most MaxProps listings.
MaxProps == 3

\* top_k ranges over -1..MaxTopK.
MaxTopK == 3

\* The weights 2, 1, 1, 1.
ExampleWeights == <<RInt(2), RInt(1), RInt(1), RInt(1)>>

WeightInputs ==
    {<<RInt(b), RInt(a), RInt(s), RInt(c)>> : b, a, s, c \in 0..MaxWeight}
    \cup {ExampleWeights}

PriceInputs == {RInt(k * WanUnit) : k \in 1..MaxWan}

BudgetInputs == {None} \cup {Some(RInt(k * WanUnit)) : k \in 0..MaxWan}

CommuteInputs == {RInt(k * QuarterHour) : k \in 0..MaxCommuteSteps}

CommuteCapInputs == {None} \cup {Some(c) : c \in CommuteInputs}

\* The five listings of the mock inventory.
P001 ==
    [property_id |-> "P001", price |-> 3500000, area |-> ChaoYangQu,
     school_district |-> ChaoYangShiYanXiaoXue, commute_time |-> 25,
     address |-> "Chaoyang, Jianguo Road 88"]

P002 ==
    [property_id |-> "P002", price |-> 4200000, area |-> HaiDianQu,
     school_district |-> ZhongGuanCunDiYiXiaoXue, commute_time |-> 30,
     address |-> "Haidian, Zhongguancun Street 123"]

P003 ==
    [property_id |-> "P003", price |-> 2800000, area |-> FengTaiQu,
     school_district |-> FengTaiDiWuXiaoXue, commute_time |-> 35,
     address |-> "Fengtai, South Third Ring West Road 456"]

P004 ==
    [property_id |-> "P004", price |-> 5800000, area |-> XiChengQu,
     school_district |-> BeiJingDiErShiYanXiaoXue, commute_time |-> 15,
     address |-> "Xicheng, Financial Street 789"]

P005 ==
    [property_id |-> "P005", price |-> 3200000, area |-> ChaoYangQu,
     school_district |-> ChaoYangWaiGuoYuXueXiao, commute_time |-> 28,
     address |-> "Chaoyang, Wangjing West Road 321"]

\* A listing record that lacks the price attribute.
Unpriced ==
    [property_id |-> "P006", area |-> XiChengQu,
     school_district |-> BeiJingDiErShiYanXiaoXue, commute_time |-> 15,
     address |-> "Xicheng, Financial Street 790"]

Listings == {P001, P002, P003, P004, P005, Unpriced}

\* The listings candidate lists are made of.
Candidates == {P001, P002, P005, Unpriced}

\* The lists of at most MaxProps distinct candidates.
CandidateLists ==
    UNION {{l \in [1..n -> Candidates] :
               \A i, j \in 1..n : i # j => l[i] # l[j]} : n \in 0..MaxProps}

TopKInputs == (0 - 1)..MaxTopK

\* Preference records: a dict of the fields present.
NoRequirements == <<>>

Requirement(budget, area, school_district, commute) ==
    [budget |-> budget, area |-> area, school_district |-> school_district,
     commute |-> commute]

\* "300-500wan", "500-300wan", "0-0wan", "x-xwan", " 300 - 500 wan"
Budget300To500 == <<"3", "0", "0", "-", "5", "0", "0", "wan">>

Budget500To300 == <<"5", "0", "0", "-", "3", "0", "0", "wan">>

Budget0To0 == <<"0", "-", "0", "wan">>

BudgetLettersRange == <<"x", "-", "x", "wan">>

BudgetSpaced == <<" ", "3", "0", "0", " ", "-", " ", "5", "0", "0", " ", "wan">>

\* "400wan yinei", "0wan yinei", "xwan yinei", "300-400-500wan", "300-500"
BudgetUpTo400 == <<"4", "0", "0", "wan", "yi", "nei">>

BudgetUpTo0 == <<"0", "wan", "yi", "nei">>

BudgetLettersUpTo == <<"x", "wan", "yi", "nei">>

BudgetThreeParts == <<"3", "0", "0", "-", "4", "0", "0", "-", "5", "0", "0", "wan">>

BudgetNoUnit == <<"3", "0", "0", "-", "5", "0", "0">>

\* "400wan"
Budget400Only == <<"4", "0", "0", "wan">>

\* "30fenzhong", "0fenzhong", "xfenzhong", "30"
Commute30 == <<"3", "0", "fen", "zhong">>

Commute0 == <<"0", "fen", "zhong">>

CommuteLetters == <<"x", "fen", "zhong">>

CommuteNoUnit == <<"3", "0">>

ShiYanXiaoXue == <<"Shi", "Yan", "Xiao", "Xue">>

\* A district and a school the two tables do not hold.
TongZhouQu == <<"Tong", "Zhou", "Qu">>

RenDaFuXiao == <<"Ren", "Da", "Fu", "Xiao">>

\* Area texts: empty, the five districts of the table, a district name
\* without its suffix, and a district outside the table.
AreaInputs ==
    {<<>>, ChaoYangQu, HaiDianQu, XiChengQu, DongChengQu, FengTaiQu,
     <<"Chao", "Yang">>, TongZhouQu}

\* School texts: empty, the six schools of the table, a part of a school
\* name, and a school outside the table.
SchoolInputs ==
    {<<>>, BeiJingDiErShiYanXiaoXue, ZhongGuanCunDiYiXiaoXue,
     ChaoYangShiYanXiaoXue, ChaoYangWaiGuoYuXueXiao, FengTaiDiWuXiaoXue,
     FengTaiShiYanXiaoXue, ShiYanXiaoXue, RenDaFuXiao}

Requirements ==
    {NoRequirements,
     Requirement(<<>>, <<>>, <<>>, <<>>),
     Requirement(Budget300To500, ChaoYangQu, <<>>, Commute30),
     Requirement(Budget500To300, HaiDianQu, ShiYanXiaoXue, CommuteNoUnit),
     Requirement(Budget0To0, <<>>, <<>>, <<>>),
     Requirement(BudgetLettersRange, ChaoYangQu, <<>>, Commute30),
     Requirement(BudgetSpaced, FengTaiQu, FengTaiShiYanXiaoXue, CommuteLetters),
     Requirement(BudgetUpTo400, DongChengQu, ChaoYangShiYanXiaoXue, Commute30),
     Requirement(BudgetUpTo0, <<>>, <<>>, <<>>),
     Requirement(BudgetLettersUpTo, <<>>, <<>>, <<>>),
     Requirement(BudgetThreeParts, <<>>, <<>>, Commute0),
     Requirement(BudgetNoUnit, <<"Chao", "Yang">>, <<>>, Commute0),
     Requirement(Budget400Only, XiChengQu, <<>>, <<>>)}

\* The preference records candidate lists are ranked against.
RankingRequirements ==
    {NoRequirements,
     Requirement(Budget300To500, ChaoYangQu, <<>>, Commute30),
     Requirement(Budget0To0, <<>>, <<>>, <<>>),
     Requirement(BudgetLettersRange, ChaoYangQu, <<>>, Commute30),
     Requirement(BudgetUpTo400, DongChengQu, ChaoYangShiYanXiaoXue, Commute30)}

-----------------------------------------------------------------------------
(* RealEstateMultiAgentSystem.process_user_query: the requirement tool,    *)
(* the listing search, the ranking and the summary, in sequence.           *)

\* json.dumps and json.loads: the text of a value of strings, integers,
\* lists and dicts, and the value read back from that text.
JsonDumps(value) == [json |-> value]

JsonLoads(text) == text.json

\* x or "" for an Optional[str]: None and the empty string give "".
OrEmpty(x) == IF x.some /\ x.v # <<>> THEN x.v ELSE <<>>

\* RequirementExtractionTool._run
RequirementExtractionTool_run(budget, area, school_district, commute) ==
    JsonDumps([budget |-> OrEmpty(budget), area |-> OrEmpty(area),
               school_district |-> OrEmpty(school_district),
               commute |-> OrEmpty(commute)])

mock_properties == <<P001, P002, P003, P004, P005>>

\* The truth value of an Optional number: None and 0 are false.
Truthy(x) == x.some /\ x.v.n # 0

\* PropertySearchTool._run: the listings no given condition rules out.
PropertySearchTool_run(budget_min, budget_max, area, school_district, max_commute_time) ==
    LET Kept(prop) ==
            /\ ~(Truthy(budget_min)
                 /\ RLt(RInt(prop["price"]), budget_min.v))
            /\ ~(Truthy(budget_max)
                 /\ RLt(budget_max.v, RInt(prop["price"])))
            /\ ~(area # <<>> /\ ~Contains(prop["area"], area))
            /\ ~(school_district # <<>>
                 /\ ~Contains(prop["school_district"], school_district))
            /\ ~(Truthy(max_commute_time)
                 /\ RLt(max_commute_time.v, RInt(prop["commute_time"])))
        filtered_properties == SelectSeq(mock_properties, Kept)
    IN  JsonDumps([total_count |-> Len(filtered_properties),
                   properties |-> filtered_properties])

\* PropertyAgent.search_properties: the budget and commute texts are
\* parsed as calculate_matching_score parses them; an exception gives the
\* empty result with an error entry.
search_properties(requirements) ==
    LET budget == ParseBudget(DictGet(requirements, "budget", <<>>))
    IN  IF ~Returned(budget)
        THEN [total_count |-> 0, properties |-> <<>>, error |-> budget.exc]
        ELSE JsonLoads(PropertySearchTool_run(
                 budget.val.min, budget.val.max,
                 DictGet(requirements, "area", <<>>),
                 DictGet(requirements, "school_district", <<>>),
                 ParseCommute(DictGet(requirements, "commute", <<>>))))

\* Lines 59-63: the summary is returned; an exception raised on the way is
\* caught and reported.
SummaryOrError(summary) ==
    IF Returned(summary) THEN summary
    ELSE Return([error |-> summary.exc, message |-> "error while processing"])

\* Lines 47-56: no listing found gives the "no listing" report; otherwise
\* the listings are ranked with top_k = 3 and the ranking is summarized.
RankAndSummarize(matching_agent, properties, requirements) ==
    IF Len(properties) = 0
    THEN Return([message |-> "no listing meets the requirements",
                 recommendations |-> <<>>])
    ELSE SummaryOrError(
             generate_recommendation_summary(
                 recommend_properties(matching_agent, properties,
                                      requirements, 3).val))

\* Lines 42-44: the listings searched for the requirements.
SearchAndRecommend(matching_agent, requirements) ==
    RankAndSummarize(
        matching_agent,
        DictGet(search_properties(requirements), "properties", <<>>),
        requirements)

\* process_user_query handing the query to the requirement tool as the
\* budget text.
ProcessQueryAsBudgetText(matching_agent, user_query) ==
    SearchAndRecommend(
        matching_agent,
        JsonLoads(RequirementExtractionTool_run(Some(user_query), None, None,
                                                None)))

\* process_user_query: user_query is logged, and the requirement tool is
\* run with None for each of its four fields.
process_user_query(matching_agent, user_query) ==
    SearchAndRecommend(
        matching_agent,
        JsonLoads(RequirementExtractionTool_run(None, None, None, None)))

\* The queries: empty, a budget, an area with a commute, a school.
QueryInputs ==
    {<<>>, Budget300To500, FengTaiQu \o Commute30, BudgetUpTo400,
     ChaoYangWaiGuoYuXueXiao}

-----------------------------------------------------------------------------
(* The state machine: one MatchingAgent, constructed once, whose methods   *)
(* are called one at a time.  call holds the call last made: its           *)
(* operation, its arguments and its outcome.                               *)

NoAgent ==
    [state |-> "absent",
     self |-> [budget_weight |-> RZero, area_weight |-> RZero,
               school_weight |-> RZero, commute_weight |-> RZero]]

NoCall == [op |-> "none", args |-> <<>>, out |-> Return(NoValue)]

Init == agent = NoAgent /\ call = NoCall

\* MatchingAgent(budget_weight, area_weight, school_weight, commute_weight)
Constructed(b, a, s, c) ==
    LET out == NewMatchingAgent(b, a, s, c)
    IN  /\ call' = [op |-> "__init__", args |-> <<b, a, s, c>>, out |-> out]
        /\ agent' = IF Returned(out)
                    THEN [state |-> "ready", self |-> out.val]
                    ELSE agent

Construct ==
    /\ agent.state = "absent"
    /\ call.op = "none"
    /\ \E w \in WeightInputs : Constructed(w[1], w[2], w[3], w[4])

\* MatchingAgent(): the default weights 0.4, 0.2, 0.3, 0.3.
ConstructDefault ==
    /\ agent.state = "absent"
    /\ call.op = "none"
    /\ Constructed(Rat(4, 10), Rat(2, 10), Rat(3, 10), Rat(3, 10))

Ready == agent.state = "ready" /\ call.op = "none"

CallBudgetScore ==
    /\ Ready
    /\ \E price \in PriceInputs, lo, hi \in BudgetInputs :
           call' = [op |-> "calculate_budget_score",
                    args |-> [property_price |-> price, budget_min |-> lo,
                              budget_max |-> hi],
                    out |-> calculate_budget_score(price, lo, hi)]
    /\ UNCHANGED agent

CallCommuteScore ==
    /\ Ready
    /\ \E minutes \in CommuteInputs, cap \in CommuteCapInputs :
           call' = [op |-> "calculate_commute_score",
                    args |-> [property_commute |-> minutes,
                              required_commute |-> cap],
                    out |-> calculate_commute_score(minutes, cap)]
    /\ UNCHANGED agent

CallAreaScore ==
    /\ Ready
    /\ \E property_area, required_area \in AreaInputs :
           call' = [op |-> "calculate_area_score",
                    args |-> [property_area |-> property_area,
                              required_area |-> required_area],
                    out |-> calculate_area_score(property_area,
                                                 required_area)]
    /\ UNCHANGED agent

CallSchoolScore ==
    /\ Ready
    /\ \E property_school, required_school \in SchoolInputs :
           call' = [op |-> "calculate_school_score",
                    args |-> [property_school |-> property_school,
                              required_school |-> required_school],
                    out |-> calculate_school_score(property_school,
                                                   required_school)]
    /\ UNCHANGED agent

CallMatchingScore ==
    /\ Ready
    /\ \E prop \in Listings, req \in Requirements :
           call' = [op |-> "calculate_matching_score",
                    args |-> [property_info |-> prop, requirements |-> req],
                    out |-> calculate_matching_score(agent.self, prop, req)]
    /\ UNCHANGED agent

CallRecommend ==
    /\ Ready
    /\ \E props \in CandidateLists, req \in RankingRequirements,
          k \in TopKInputs :
           call' = [op |-> "recommend_properties",
                    args |-> [properties |-> props, requirements |-> req,
                              top_k |-> k],
                    out |-> recommend_properties(agent.self, props, req, k)]
    /\ UNCHANGED agent

\* The recommendations just returned are summarized, as the orchestrator
\* does.
CallSummary ==
    /\ agent.state = "ready"
    /\ call.op = "recommend_properties"
    /\ call' = [op |-> "generate_recommendation_summary",
                args |-> [recommendations |-> call.out.val],
                out |-> generate_recommendation_summary(call.out.val)]
    /\ UNCHANGED agent

\* The agent of a RealEstateMultiAgentSystem: MatchingAgent().
DefaultAgent ==
    NewMatchingAgent(Rat(4, 10), Rat(2, 10), Rat(3, 10), Rat(3, 10)).val

\* RealEstateMultiAgentSystem.process_user_query, on the system whose
\* matching agent was built with the default weights.
ProcessUserQuery ==
    /\ Ready
    /\ agent.self = DefaultAgent
    /\ \E user_query \in QueryInputs :
           call' = [op |-> "process_user_query",
                    args |-> [user_query |-> user_query],
                    out |-> process_user_query(agent.self, user_query)]
    /\ UNCHANGED agent

\* The caller takes the outcome; the agent is free for the next call.
ResultTaken ==
    /\ call.op # "none"
    /\ call' = NoCall
    /\ UNCHANGED agent

Next ==
    \/ Construct
    \/ ConstructDefault
    \/ CallBudgetScore
    \/ CallCommuteScore
    \/ CallAreaScore
    \/ CallSchoolScore
    \/ CallMatchingScore
    \/ CallRecommend
    \/ CallSummary
    \/ ProcessUserQuery
    \/ ResultTaken

Spec == Init /\ [][Next]_vars

-----------------------------------------------------------------------------
(* Properties.                                                              *)

InUnit(x) == RLe(RZero, x) /\ RLe(x, ROne)

WeightSum(self) ==
    RAdd(RAdd(self.budget_weight, self.area_weight),
         RAdd(self.school_weight, self.commute_weight))

\* The well-formed listings: every attribute present, positive price,
\* non-negative commute time.
WellFormed(prop) ==
    /\ {"property_id", "price", "area", "school_district", "commute_time"}
           \subseteq DOMAIN prop
    /\ prop["price"] > 0
    /\ prop["commute_time"] >= 0

\* C1: for every well-formed listing and every preference record,
\* calculate_matching_score returns, and its four criterion scores and its
\* total score each lie in [0, 1].
C1_ScoresInUnitInterval ==
    (call.op = "calculate_matching_score"
     /\ WellFormed(call.args.property_info))
    => /\ Returned(call.out)
       /\ InUnit(call.out.val.budget_score)
       /\ InUnit(call.out.val.area_score)
       /\ InUnit(call.out.val.school_score)
       /\ InUnit(call.out.val.commute_score)
       /\ InUnit(call.out.val.total_score)

\* C2: with a required maximum commute of 0, calculate_commute_score
\* returns without raising: 0.0 for a positive property commute, 1.0 for a
\* property commute of 0.
C2_ZeroCapNeverRaises ==
    (call.op = "calculate_commute_score"
     /\ call.args.required_commute = Some(RZero))
    => /\ Returned(call.out)
       /\ call.out.val = IF call.args.property_commute = RZero
                         THEN ROne ELSE RZero

\* C3: recommend_properties with top_k <= 0 returns the empty list, for
\* every candidate list.
C3_NonPositiveTopKIsEmpty ==
    (call.op = "recommend_properties" /\ call.args.top_k <= 0)
    => call.out = Return(<<>>)

\* The elements of a list.
Elements(lst) == {lst[i] : i \in 1..Len(lst)}

\* C4: when one candidate lacks the price attribute and the others can be
\* scored, recommend_properties leaves out only that candidate: with top_k
\* at least the number of candidates, the listings recommended are exactly
\* the other candidates.
C4_OnlyOffendingListingExcluded ==
    (/\ call.op = "recommend_properties"
     /\ Unpriced \in Elements(call.args.properties)
     /\ call.args.top_k >= Len(call.args.properties)
     /\ \A prop \in Elements(call.args.properties) \ {Unpriced} :
            Returned(calculate_matching_score(agent.self, prop,
                                              call.args.requirements)))
    => {call.out.val[i].property_info : i \in 1..Len(call.out.val)}
           = Elements(call.args.properties) \ {Unpriced}

\* C5: a budget text that holds the unit marker but whose numeric parts
\* are not numbers does not make calculate_matching_score raise: both
\* budget bounds stay unset and the budget score is the unconstrained 0.5;
\* and a commute text without digits leaves the commute cap unset.
C5_UnparsableBudgetIsUnconstrained ==
    /\ (/\ call.op = "calculate_matching_score"
        /\ WellFormed(call.args.property_info)
        /\ DictGet(call.args.requirements, "budget", <<>>)
               \in {BudgetLettersRange, BudgetLettersUpTo})
       => /\ Returned(call.out)
          /\ call.out.val.budget_score = Half
    /\ (/\ call.op = "calculate_matching_score"
        /\ DictGet(call.args.requirements, "commute", <<>>) = CommuteLetters
        /\ Returned(call.out))
       => call.out.val.commute_score
              = calculate_commute_score(
                    RInt(call.args.property_info["commute_time"]), None).val

\* The place of an element in a list of distinct elements.
IndexOf(lst, x) == CHOOSE i \in 1..Len(lst) : lst[i] = x

\* C6: the recommendations are in descending order of total score, and
\* two recommendations of equal total score are in the order their
\* listings have in the candidate list.
C6_SortedDescendingStable ==
    call.op = "recommend_properties"
    => \A i, j \in 1..Len(call.out.val) :
           i < j =>
               LET a == call.out.val[i]
                   b == call.out.val[j]
               IN  /\ RLe(b.matching_score.total_score,
                          a.matching_score.total_score)
                   /\ (a.matching_score.total_score
                           = b.matching_score.total_score
                       => IndexOf(call.args.properties, a.property_info)
                              < IndexOf(call.args.properties,
                                        b.property_info))

\* A ranking of three candidates in which the first two tie, the third
\* scores lower, and the third was the first candidate given.
C6_Witness ==
    /\ call.op = "recommend_properties"
    /\ Len(call.out.val) = 3
    /\ call.out.val[1].matching_score.total_score
           = call.out.val[2].matching_score.total_score
    /\ RLt(call.out.val[3].matching_score.total_score,
           call.out.val[2].matching_score.total_score)
    /\ call.out.val[3].property_info = call.args.properties[1]

\* C7: calculate_budget_score returns a value in [0, 1], without raising,
\* for an inverted range (min > max) and for a range with a bound of 0,
\* and for an inverted range the value is never 1.0.
C7_DegenerateRangeTolerated ==
    (/\ call.op = "calculate_budget_score"
     /\ call.args.budget_min.some
     /\ call.args.budget_max.some
     /\ \/ RLt(call.args.budget_max.v, call.args.budget_min.v)
        \/ call.args.budget_min.v = RZero
        \/ call.args.budget_max.v = RZero)
    => /\ Returned(call.out)
       /\ InUnit(call.out.val)
       /\ (RLt(call.args.budget_max.v, call.args.budget_min.v)
           => call.out.val # ROne)

\* The stored weights are the constructor's inputs w, each divided by
\* the sum of the inputs.
WeightsAreInputsOverSum(self, w) ==
    LET sum == RAdd(RAdd(w[1], w[2]), RAdd(w[3], w[4]))
    IN  /\ RMul(self.budget_weight, sum) = w[1]
        /\ RMul(self.area_weight, sum) = w[2]
        /\ RMul(self.school_weight, sum) = w[3]
        /\ RMul(self.commute_weight, sum) = w[4]

WeightsNormalized ==
    /\ (call.op = "__init__" /\ Returned(call.out))
       => /\ agent.state = "ready"
          /\ WeightsAreInputsOverSum(agent.self, call.args)
    /\ agent.state = "ready" => WeightSum(agent.self) = ROne

\* C8: a MatchingAgent constructed from non-negative weights of positive
\* sum stores each weight divided by the sum, so the stored weights sum to
\* 1, and no later operation changes the stored weights.
C8_WeightsNormalizedAndKept ==
    /\ []WeightsNormalized
    /\ [][agent.state = "ready" => agent' = agent]_vars

\* The agent built from the weights 2, 1, 1, 1 holds 0.4, 0.2, 0.2, 0.2
\* after it has recommended and summarized.
C8_Witness ==
    /\ call.op = "generate_recommendation_summary"
    /\ Len(call.args.recommendations) > 0
    /\ agent.state = "ready"
    /\ agent.self = [budget_weight |-> Rat(4, 10), area_weight |-> Rat(2, 10),
                     school_weight |-> Rat(2, 10),
                     commute_weight |-> Rat(2, 10)]

AllZeroWeights == <<RZero, RZero, RZero, RZero>>

\* C9: constructing with all four weights zero raises at construction and
\* leaves no agent; every agent there is has weights that sum to 1, and
\* scores are computed only by such an agent.
C9_ZeroWeightsFailConstruction ==
    /\ (call.op = "__init__" /\ call.args = AllZeroWeights)
       => /\ call.out.exc = "ZeroDivisionError"
          /\ agent.state = "absent"
    /\ agent.state = "ready" => WeightSum(agent.self) = ROne
    /\ call.op \in {"calculate_matching_score", "recommend_properties"}
       => agent.state = "ready" /\ WeightSum(agent.self) = ROne

\* The construction with all weights zero has raised.
C9_Witness ==
    /\ call.op = "__init__"
    /\ call.args = AllZeroWeights
    /\ call.out.exc = "ZeroDivisionError"
    /\ agent.state = "absent"

\* The score the claim states for a price p and a range 0 < lo <= hi, all
\* whole numbers: 1 inside, max(0, p/lo) below, max(0, 1 - (p - hi)/hi)
\* above.
StatedBudgetScore(p, lo, hi) ==
    IF lo <= p /\ p <= hi THEN ROne
    ELSE IF p < lo THEN Rat(p, lo)
    ELSE IF p >= 2 * hi THEN RZero
    ELSE Rat(2 * hi - p, hi)

\* C10: for a range 0 < min <= max, calculate_budget_score is 1.0 for a
\* price inside the range (bounds included), max(0, price/min) below it
\* and max(0, 1 - (price - max)/max) above it, and it does not increase
\* as the price moves further from the range on either side.
C10_BudgetScoreShape ==
    (/\ call.op = "calculate_budget_score"
     /\ call.args.budget_min.some
     /\ call.args.budget_max.some
     /\ RLt(RZero, call.args.budget_min.v)
     /\ RLe(call.args.budget_min.v, call.args.budget_max.v))
    => LET p == call.args.property_price
           lo == call.args.budget_min
           hi == call.args.budget_max
       IN  /\ call.out = Return(StatedBudgetScore(p.n, lo.v.n, hi.v.n))
           /\ \A q \in PriceInputs :
                  LET other == calculate_budget_score(q, lo, hi)
                  IN  /\ Returned(other)
                      /\ (RLt(q, p) /\ RLt(p, lo.v))
                         => RLe(other.val, call.out.val)
                      /\ (RLt(hi.v, p) /\ RLt(p, q))
                         => RLe(other.val, call.out.val)

\* A price above a range with distinct bounds, scored strictly between 0
\* and 1.
C10_Witness ==
    /\ call.op = "calculate_budget_score"
    /\ call.args.budget_min.some
    /\ call.args.budget_max.some
    /\ RLt(RZero, call.args.budget_min.v)
    /\ RLt(call.args.budget_min.v, call.args.budget_max.v)
    /\ RLt(call.args.budget_max.v, call.args.property_price)
    /\ Returned(call.out)
    /\ RLt(RZero, call.out.val)
    /\ RLt(call.out.val, ROne)

\* The smaller of two integers.
Smaller(a, b) == IF a <= b THEN a ELSE b

\* C11: when top_k >= 1 and every one of the n candidates is scored
\* successfully, recommend_properties returns exactly min(top_k, n)
\* recommendations (all n when top_k > n), and their ranks are 1, 2, ..., N
\* in output order.
C11_TopKRankedFromOne ==
    (/\ call.op = "recommend_properties"
     /\ call.args.top_k >= 1
     /\ Returned(ScoreAll(agent.self, call.args.properties,
                          call.args.requirements)))
    => /\ Returned(call.out)
       /\ Len(call.out.val)
              = Smaller(call.args.top_k, Len(call.args.properties))
       /\ \A i \in 1..Len(call.out.val) : call.out.val[i].rank = i

\* top_k exceeds the number of candidates and all of them come back,
\* ranked 1 and 2.
C11_Witness ==
    /\ call.op = "recommend_properties"
    /\ Len(call.args.properties) = 2
    /\ call.args.top_k > Len(call.args.properties)
    /\ Len(call.out.val) = 2
    /\ call.out.val[1].rank = 1
    /\ call.out.val[2].rank = 2

\* The number of places of the character c in the text s.
CountOf(s, c) == Cardinality({i \in 1..Len(s) : s[i] = c})

\* The text reads as a whole number, blanks around it allowed.
IsNumberText(s) ==
    LET t == Strip(s)
    IN  t # <<>> /\ \A i \in 1..Len(t) : t[i] \in Digits

\* The amount in yuan of a number text counted in wan.
YuanOfWanText(s) == RInt(Decimal(Strip(s)) * WanUnit)

\* The text ends with the "or less" marker.
EndsWithYinei(s) ==
    Len(s) >= Len(yinei) /\ SubSeq(s, Len(s) - Len(yinei) + 1, Len(s)) = yinei

\* The three shapes of budget text: two numbers around one "-", with the
\* unit marker; one number before the "or less" suffix, with the unit
\* marker and no "-"; and the shapes that set nothing.
RangeShape(t) ==
    /\ Contains(t, wan)
    /\ CountOf(t, "-") = 1
    /\ \A i \in 1..2 : IsNumberText(Split(Remove(t, wan), "-")[i])

UpToShape(t) ==
    /\ Contains(t, wan)
    /\ CountOf(t, "-") = 0
    /\ EndsWithYinei(Remove(t, wan))
    /\ IsNumberText(SubSeq(Remove(t, wan), 1,
                           Len(Remove(t, wan)) - Len(yinei)))

UnsetShape(t) ==
    \/ t = <<>>
    \/ ~Contains(t, wan)
    \/ CountOf(t, "-") > 1
    \/ (CountOf(t, "-") = 0 /\ ~Contains(t, yinei))

\* The bounds the three shapes are stated to give.
StatedBudget(t) ==
    IF RangeShape(t)
    THEN [min |-> Some(YuanOfWanText(Split(Remove(t, wan), "-")[1])),
          max |-> Some(YuanOfWanText(Split(Remove(t, wan), "-")[2]))]
    ELSE IF UpToShape(t)
    THEN [min |-> None,
          max |-> Some(YuanOfWanText(
                      SubSeq(Remove(t, wan), 1,
                             Len(Remove(t, wan)) - Len(yinei))))]
    ELSE [min |-> None, max |-> None]

\* C12: in calculate_matching_score a budget text with the unit marker
\* and exactly two numbers around one "-" sets budget_min and budget_max
\* to the numbers times 10000; with the unit marker, no "-" and a number
\* before the "or less" suffix it sets only budget_max; a text without the
\* unit marker, with more than one "-", with neither "-" nor "or less", or
\* empty or absent, leaves both unset; and the budget score returned is
\* the score of those bounds.
C12_BudgetTextParsed ==
    call.op = "calculate_matching_score"
    => LET t == DictGet(call.args.requirements, "budget", <<>>)
       IN  (RangeShape(t) \/ UpToShape(t) \/ UnsetShape(t))
           => /\ ParseBudget(t) = Return(StatedBudget(t))
              /\ (WellFormed(call.args.property_info) /\ Returned(call.out))
                 => Return(call.out.val.budget_score)
                        = calculate_budget_score(
                              RInt(call.args.property_info["price"]),
                              StatedBudget(t).min, StatedBudget(t).max)

\* "300-500wan" read as 3,000,000 and 5,000,000: the listing of 5,800,000
\* is scored 1 - 800,000 / 5,000,000.
C12_Witness ==
    /\ call.op = "calculate_matching_score"
    /\ DictGet(call.args.requirements, "budget", <<>>) = Budget300To500
    /\ call.args.property_info = P004
    /\ Returned(call.out)
    /\ call.out.val.budget_score = Rat(84, 100)
    /\ StatedBudget(Budget300To500)
           = [min |-> Some(RInt(3000000)), max |-> Some(RInt(5000000))]

\* One text is a part of the other, in either direction.
EitherContains(a, b) == Contains(a, b) \/ Contains(b, a)

\* C13: calculate_area_score returns 0.5 when required_area is empty;
\* otherwise 1.0 when one area text is a part of the other; otherwise 0.7
\* when property_area is listed as a neighbour of required_area in the
\* adjacency table; otherwise 0.2; and never any other value.
C13_AreaScoreValues ==
    call.op = "calculate_area_score"
    => LET property_area == call.args.property_area
           required_area == call.args.required_area
       IN  /\ Returned(call.out)
           /\ call.out.val \in {Half, ROne, Rat(7, 10), Rat(2, 10)}
           /\ call.out.val
                  = IF required_area = <<>> THEN Half
                    ELSE IF EitherContains(property_area, required_area)
                    THEN ROne
                    ELSE IF /\ required_area \in DOMAIN area_similarity_map
                            /\ InList(property_area,
                                      area_similarity_map[required_area])
                    THEN Rat(7, 10)
                    ELSE Rat(2, 10)

\* A listing in Chaoyang scored 0.7 against a required Fengtai: Chaoyang
\* is listed under Fengtai, while Fengtai is not listed under Chaoyang.
C13_Witness ==
    /\ call.op = "calculate_area_score"
    /\ call.args.property_area = ChaoYangQu
    /\ call.args.required_area = FengTaiQu
    /\ ~InList(FengTaiQu, area_similarity_map[ChaoYangQu])
    /\ call.out = Return(Rat(7, 10))

\* The quality of a school in hundredths: its table entry, 60 when the
\* table does not hold it.
QualityHundredths(school) ==
    IF school \in DOMAIN school_quality_map
    THEN (100 * school_quality_map[school].n) \div school_quality_map[school].d
    ELSE 60

\* C14: calculate_school_score returns 0.5 when required_school is empty;
\* otherwise 1.0 when one school text is a part of the other; otherwise
\* max(0, 1 - 2 * |q(property_school) - q(required_school)|), q being the
\* quality table with 0.6 for a school it does not hold.
C14_SchoolScoreValues ==
    call.op = "calculate_school_score"
    => LET property_school == call.args.property_school
           required_school == call.args.required_school
           diff == Abs(QualityHundredths(property_school)
                       - QualityHundredths(required_school))
       IN  call.out
               = Return(IF required_school = <<>> THEN Half
                        ELSE IF EitherContains(property_school,
                                               required_school)
                        THEN ROne
                        ELSE IF 2 * diff >= 100 THEN RZero
                        ELSE Rat(100 - 2 * diff, 100))

\* The best school of the table against a required school outside it:
\* 1 - 2 * (0.95 - 0.6) = 0.3.
C14_Witness ==
    /\ call.op = "calculate_school_score"
    /\ call.args.property_school = BeiJingDiErShiYanXiaoXue
    /\ call.args.required_school = RenDaFuXiao
    /\ call.out = Return(Rat(3, 10))

\* C15: calculate_commute_score without a cap returns
\* max(0, 1 - property_commute / 60), which is 0 from 60 minutes on; with a
\* cap m > 0 it returns 1.0 when property_commute <= m and
\* max(0, 1 - (property_commute - m) / m) otherwise.
C15_CommuteScoreShape ==
    (/\ call.op = "calculate_commute_score"
     /\ (call.args.required_commute.some
         => RLt(RZero, call.args.required_commute.v)))
    => LET p == call.args.property_commute.n
           m == call.args.required_commute.v.n
       IN  call.out
               = Return(IF ~call.args.required_commute.some
                        THEN (IF p >= 60 THEN RZero ELSE Rat(60 - p, 60))
                        ELSE IF p <= m THEN ROne
                        ELSE IF p >= 2 * m THEN RZero
                        ELSE Rat(2 * m - p, m))

\* A commute over a positive cap by less than the cap, scored strictly
\* between 0 and 1.
C15_Witness ==
    /\ call.op = "calculate_commute_score"
    /\ call.args.required_commute.some
    /\ RLt(RZero, call.args.required_commute.v)
    /\ RLt(call.args.required_commute.v, call.args.property_commute)
    /\ Returned(call.out)
    /\ RLt(RZero, call.out.val)
    /\ RLt(call.out.val, ROne)

\* C16: generate_recommendation_summary on an empty recommendation list
\* returns a report that carries the "no matches" message and nothing
\* else: no average_matching_score, no price_range, no top_recommendation
\* and no other statistics field.
C16_EmptySummaryOnlyMessage ==
    (/\ call.op = "generate_recommendation_summary"
     /\ call.args.recommendations = <<>>)
    => /\ Returned(call.out)
       /\ DOMAIN call.out.val = {"message"}
       /\ call.out.val.message = "no suitable recommendation found"

\* An empty list of recommendations has been summarized.
C16_Witness ==
    /\ call.op = "generate_recommendation_summary"
    /\ call.args.recommendations = <<>>
    /\ Returned(call.out)
    /\ "message" \in DOMAIN call.out.val

\* C17: generate_recommendation_summary on a non-empty recommendation
\* list returns a price_range whose min and max are the smallest and the
\* largest price among the recommended listings (min <= max), a
\* top_recommendation whose property_id, address, price and reason are
\* those of the first, rank-1 recommendation, and a recommendations list
\* with one entry per recommendation, in the same order, carrying that
\* recommendation's rank.
C17_SummaryOfRecommended ==
    (/\ call.op = "generate_recommendation_summary"
     /\ call.args.recommendations # <<>>)
    => LET recs == call.args.recommendations
           out == call.out.val
       IN  /\ Returned(call.out)
           /\ \E i \in 1..Len(recs) :
                  out.price_range.min = recs[i].property_info["price"]
           /\ \E i \in 1..Len(recs) :
                  out.price_range.max = recs[i].property_info["price"]
           /\ \A i \in 1..Len(recs) :
                  /\ out.price_range.min <= recs[i].property_info["price"]
                  /\ recs[i].property_info["price"] <= out.price_range.max
           /\ out.price_range.min <= out.price_range.max
           /\ recs[1].rank = 1
           /\ out.top_recommendation.property_id
                  = recs[1].property_info["property_id"]
           /\ out.top_recommendation.address
                  = recs[1].property_info["address"]
           /\ out.top_recommendation.price = recs[1].property_info["price"]
           /\ out.top_recommendation.reason
                  = recs[1].matching_score.recommendation_reason
           /\ Len(out.recommendations) = Len(recs)
           /\ \A i \in 1..Len(recs) :
                  /\ out.recommendations[i].rank = recs[i].rank
                  /\ out.recommendations[i].property_id
                         = recs[i].property_info["property_id"]

\* Three recommendations summarized, the first of them priced strictly
\* between the cheapest and the dearest.
C17_Witness ==
    /\ call.op = "generate_recommendation_summary"
    /\ Len(call.args.recommendations) = 3
    /\ Returned(call.out)
    /\ call.out.val.price_range.min < call.out.val.top_recommendation.price
    /\ call.out.val.top_recommendation.price < call.out.val.price_range.max
    /\ call.out.val.recommendations[3].rank = 3

\* score >= tenths / 10
AtLeastTenths(score, tenths) == 10 * score.n >= tenths * score.d

\* The place of a phrase in a reason, 0 when the reason does not hold it.
PlaceOf(reason, phrase) ==
    IF InList(phrase, reason)
    THEN CHOOSE i \in 1..Len(reason) : reason[i] = phrase
    ELSE 0

\* The phrases of the four criteria, in criterion order: strong, moderate.
CriterionPhrases ==
    <<<<"price fits budget", "price roughly fits budget">>,
      <<"excellent location", "good location">>,
      <<"excellent school district", "good school district">>,
      <<"convenient commute", "fairly convenient commute">>>>

\* C18: the reason built by calculate_matching_score holds, for each
\* criterion, its strong phrase iff the score is >= 0.8 and its moderate
\* phrase iff 0.6 <= score < 0.8, and nothing else for that criterion; the
\* phrases stand in the order budget, area, school, commute whatever the
\* scores; the fallback phrase stands iff all four scores are below 0.6.
C18_ReasonPhrases ==
    (call.op = "calculate_matching_score" /\ Returned(call.out))
    => LET reason == call.out.val.recommendation_reason
           scores == <<call.out.val.budget_score, call.out.val.area_score,
                       call.out.val.school_score,
                       call.out.val.commute_score>>
           qualifying == {c \in 1..4 : AtLeastTenths(scores[c], 6)}
       IN  /\ \A c \in 1..4 :
                  /\ InList(CriterionPhrases[c][1], reason)
                         <=> AtLeastTenths(scores[c], 8)
                  /\ InList(CriterionPhrases[c][2], reason)
                         <=> (AtLeastTenths(scores[c], 6)
                              /\ ~AtLeastTenths(scores[c], 8))
           /\ \A c, e \in qualifying :
                  c < e =>
                      \E i, j \in 1..Len(reason) :
                          /\ i < j
                          /\ reason[i] \in {CriterionPhrases[c][1],
                                             CriterionPhrases[c][2]}
                          /\ reason[j] \in {CriterionPhrases[e][1],
                                             CriterionPhrases[e][2]}
           /\ InList("average overall", reason) <=> qualifying = {}
           /\ Len(reason)
                  = IF qualifying = {} THEN 1 ELSE Cardinality(qualifying)

\* A reason whose moderate budget and area phrases stand in front of the
\* strong school phrase, the commute contributing nothing.
C18_Witness ==
    /\ call.op = "calculate_matching_score"
    /\ Returned(call.out)
    /\ call.out.val.budget_score = Rat(7, 10)
    /\ call.out.val.school_score = ROne
    /\ ~AtLeastTenths(call.out.val.commute_score, 6)
    /\ call.out.val.recommendation_reason
           = <<"price roughly fits budget", "good location",
               "excellent school district">>

\* The record with all four fields empty.
EmptyRequirements == Requirement(<<>>, <<>>, <<>>, <<>>)

=============================================================================
